---- MODULE Spec2Model ----
(***************************************************************************)
(* The magic-marble aurora shader (src/src/shaders/fragmentShader.glsl,    *)
(* the inline fragment shader of src/src/index.js) and the dat.GUI wiring  *)
(* of src/src/index.js that feeds its uniforms.                            *)
(*                                                                         *)
(* GLSL floats are modelled in fixed point: the float x is the integer     *)
(* x * Scale, truncated; the two IEEE specials that the shader can produce *)
(* (NaN, +Inf) are two reserved integers that no finite value reaches.     *)
(* The coefficients a, b, c of the ray-sphere quadratic are products of    *)
(* two floats and are kept in units of 1 / Scale^2, so that they and the   *)
(* discriminant are exact; the roots are in units of 1 / Scale.            *)
(* A product smaller than 1 / Scale truncates to 0: at 60 iterations the   *)
(* shells of the inline shader do not shrink and a density below 0.5 adds  *)
(* nothing to a march; small iteration counts are not affected.            *)
(***************************************************************************)
EXTENDS Integers, Sequences, FiniteSets, TLC

VARIABLES
    params,     \* index.js: the params object the GUI edits
    uniforms,   \* index.js: the uniforms object the shader reads
    camera,     \* index.js: camera.position
    inputs,     \* number of GUI changes, camera moves and clock ticks so far (bounded)
    build,      \* how the GLSL build resolves what the language leaves undefined
    shader,     \* which fragment shader source the material was built with
    rendering,  \* a draw call is in flight
    frag,       \* per fragment: the locals of main() and marchRay()
    solve       \* SpecSolve only: one call of solveQuadratic

vars == <<params, uniforms, camera, inputs, build, shader, rendering, frag, solve>>

(***************************************************************************)
(* Bounds of the model.                                                    *)
(***************************************************************************)
MaxInputs == 1
MaxIterChoice == 2
MaxCoef == 3
MaxSteps == 125
MaxMarchLen == 30

(***************************************************************************)
(* Floats.                                                                 *)
(***************************************************************************)
Scale == 60
CoefScale == Scale * Scale
NaN == 2000000001
Inf == 2000000000

IsNaN(x) == x = NaN
IsInf(x) == x = Inf
IsFinite(x) == x # NaN /\ x # Inf

\* n / d on finite numbers, truncated towards zero; x / 0 is IEEE's
Quot(n, d) ==
    IF d = 0 THEN (IF n = 0 THEN NaN ELSE Inf)
    ELSE IF (n >= 0) = (d > 0)
         THEN (IF n >= 0 THEN n \div d ELSE (-n) \div (-d))
         ELSE (IF n >= 0 THEN -(n \div (-d)) ELSE -((-n) \div d))

FAdd(x, y) ==
    IF IsNaN(x) \/ IsNaN(y) THEN NaN
    ELSE IF IsInf(x) \/ IsInf(y) THEN Inf
    ELSE x + y

FSub(x, y) ==
    IF IsNaN(x) \/ IsNaN(y) THEN NaN
    ELSE IF IsInf(x) /\ IsInf(y) THEN NaN
    ELSE IF IsInf(x) THEN Inf
    ELSE IF IsInf(y) THEN NaN
    ELSE x - y

\* the product of two floats (the shader multiplies +Inf by values >= 0 only)
FMul(x, y) ==
    IF IsNaN(x) \/ IsNaN(y) THEN NaN
    ELSE IF IsInf(x) \/ IsInf(y) THEN (IF x = 0 \/ y = 0 THEN NaN ELSE Inf)
    ELSE Quot(x * y, Scale)

\* the quotient of two floats
FDiv(x, y) ==
    IF IsNaN(x) \/ IsNaN(y) THEN NaN
    ELSE IF IsInf(x) THEN (IF IsInf(y) THEN NaN ELSE Inf)
    ELSE IF IsInf(y) THEN 0
    ELSE Quot(x * Scale, y)

\* comparisons: every comparison with a NaN is false
FLe(x, y) == ~IsNaN(x) /\ ~IsNaN(y) /\ x <= y
FLt(x, y) == ~IsNaN(x) /\ ~IsNaN(y) /\ x < y
FEq(x, y) == ~IsNaN(x) /\ ~IsNaN(y) /\ x = y

RECURSIVE IsqrtIn(_, _, _)
IsqrtIn(n, lo, hi) ==
    IF lo >= hi THEN lo
    ELSE LET mid == (lo + hi + 1) \div 2
         IN  IF mid * mid <= n THEN IsqrtIn(n, mid, hi) ELSE IsqrtIn(n, lo, mid - 1)

\* sqrt(x): undefined (NaN) below zero; on a value of unit u^2 the result has unit u
Sqrt(x) ==
    IF IsNaN(x) \/ x < 0 THEN NaN
    ELSE IF IsInf(x) THEN Inf
    ELSE IsqrtIn(x, 0, 46340)

(***************************************************************************)
(* What GLSL leaves undefined, and what a build makes of it:               *)
(*   pow(x, y) with x < 0 is undefined: a build that expands pow(x, 2.0)   *)
(*   to x * x returns the square, one that computes exp2(y * log2(x))      *)
(*   returns NaN;                                                          *)
(*   clamp = min(max(x, lo), hi) on a NaN is undefined: a build whose      *)
(*   min/max return the other operand gives lo, one that compares gives    *)
(*   the NaN back;                                                         *)
(*   precision mediump float: a build may keep mediump floats in full      *)
(*   single precision, or in half precision (11 significant bits).         *)
(***************************************************************************)
Builds == [powNeg : {"square", "nan"}, clampNaN : {"lo", "nan"}, mediump : {"full", "half"}]

\* Half floats from 256.0 up are a whole number of model units apart: 0.25 in
\* [256, 512), 0.5 in [512, 1024), and so on.  Below 256.0 the model keeps its own
\* resolution, which is never coarser than twice a half float's there.
HalfCoarseFrom == 256 * Scale

\* the spacing of the half floats around a >= lo, where it is ulp in [lo, 2 * lo)
RECURSIVE HalfUlp(_, _, _)
HalfUlp(a, lo, ulp) == IF a < 2 * lo THEN ulp ELSE HalfUlp(a, 2 * lo, 2 * ulp)

\* x as the build stores it in a mediump float: in a half-precision build the
\* nearest half float, ties to the even one
Mediump(bld, x) ==
    IF ~IsFinite(x) \/ bld.mediump = "full" THEN x
    ELSE LET a == IF x < 0 THEN -x ELSE x
         IN  IF a < HalfCoarseFrom THEN x
             ELSE LET ulp == HalfUlp(a, HalfCoarseFrom, Scale \div 4)
                      q == a \div ulp
                      r == a % ulp
                      n == IF 2 * r < ulp THEN q
                           ELSE IF 2 * r > ulp THEN q + 1
                           ELSE IF q % 2 = 0 THEN q ELSE q + 1
                  IN  IF x < 0 THEN -(n * ulp) ELSE n * ulp

\* pow(x, 2.0): the unit of the result is the square of x's
Pow2(bld, x) ==
    IF IsNaN(x) THEN NaN
    ELSE IF x >= 0 \/ bld.powNeg = "square" THEN x * x
    ELSE NaN

\* clamp(x, lo, hi)
Clamp(bld, x, lo, hi) ==
    IF IsNaN(x) THEN (IF bld.clampNaN = "lo" THEN lo ELSE NaN)
    ELSE IF x < lo THEN lo
    ELSE IF x > hi THEN hi
    ELSE x

(***************************************************************************)
(* solveQuadratic: roots[0] is the number of roots, roots[1] and roots[2]  *)
(* the roots; an entry the function does not assign keeps the value the    *)
(* caller's array had (inout).  a, b, c are in units of 1 / Scale^2.       *)
(***************************************************************************)
\* (-b + sign * sqrt(pow(b,2.0) - 4.0*a*c)) / (2.0 * a)
QuadraticRoot(bld, a, b, c, sign) ==
    LET s == Sqrt(FSub(Pow2(bld, b), 4 * a * c))
    IN  IF IsNaN(s) THEN NaN ELSE Quot((sign * s - b) * Scale, 2 * a)

\* fragmentShader.glsl
SolveQuadratic(bld, a, b, c, roots) ==
    LET discriminant == b * b - 4 * a * c
    IN  IF discriminant > 0
        THEN [roots EXCEPT ![0] = 2 * Scale,
                           ![1] = QuadraticRoot(bld, a, b, c, -1),
                           ![2] = QuadraticRoot(bld, a, b, c, 1)]
        ELSE IF discriminant >= 0
        THEN [roots EXCEPT ![0] = Scale, ![1] = QuadraticRoot(bld, a, b, c, 1)]
        ELSE [roots EXCEPT ![0] = 0]

\* index.js: the inline shader's solver takes the varying a_pos as well
SolveQuadraticInline(bld, a, b, c, roots, a_pos) ==
    LET discriminant == IF IsNaN(c) THEN NaN ELSE b * b - 4 * a * c
    IN  IF FLt(0, discriminant) /\ FLt(0, a_pos)
        THEN [roots EXCEPT ![0] = 2 * Scale,
                           ![1] = QuadraticRoot(bld, a, b, c, -1),
                           ![2] = QuadraticRoot(bld, a, b, c, 1)]
        ELSE IF FLe(0, discriminant)
        THEN [roots EXCEPT ![0] = Scale, ![1] = QuadraticRoot(bld, a, b, c, 1)]
        ELSE [roots EXCEPT ![0] = 0]

\* int(roots[0])
RootCount(roots) == Quot(roots[0], Scale)

(***************************************************************************)
(* Vectors (vec3), each component a float.                                 *)
(***************************************************************************)
Dot(u, v) == u[1] * v[1] + u[2] * v[2] + u[3] * v[3]   \* in units of 1 / Scale^2
VAdd(u, v) == [i \in 1..3 |-> FAdd(u[i], v[i])]
VSub(u, v) == [i \in 1..3 |-> FSub(u[i], v[i])]
VScale(t, v) == [i \in 1..3 |-> FMul(t, v[i])]
VFinite(v) == IsFinite(v[1]) /\ IsFinite(v[2]) /\ IsFinite(v[3])
Length(v) == IF VFinite(v) THEN Sqrt(Dot(v, v)) ELSE NaN

\* normalize(v): v / length(v); the zero vector gives 0 / 0 in every component
Normalize(v) ==
    LET l == Length(v)
    IN  IF IsNaN(l) THEN <<NaN, NaN, NaN>> ELSE [i \in 1..3 |-> Quot(v[i] * Scale, l)]

(***************************************************************************)
(* The two textures.  A texture is a grid of TexW x TexH texels; the       *)
(* height map is sampled with NearestFilter, so a lookup returns the texel *)
(* that holds the uv, and uv is kept as the texel's column and row.        *)
(***************************************************************************)
TexW == 8
TexH == 4

\* column of atan(dir.z, dir.x) / (2 PI) + 0.5: the octant of (x, z)
TexelU(d) ==
    LET x == d[1]
        z == d[3]
        ax == IF x < 0 THEN -x ELSE x
        az == IF z < 0 THEN -z ELSE z
    IN  IF z < 0
        THEN (IF x < 0 THEN (IF az < ax THEN 0 ELSE 1) ELSE (IF az > ax THEN 2 ELSE 3))
        ELSE IF x > 0 THEN (IF z < x THEN 4 ELSE 5)
        ELSE IF x = 0 /\ z = 0 THEN 4
        ELSE (IF z > ax THEN 6 ELSE 7)

\* row of asin(dir.y) / PI + 0.5: the quarter of the meridian
TexelV(d) ==
    LET y == d[2]
    IN  IF y < 0 THEN (IF 2 * y * y > CoefScale THEN 0 ELSE 1)
        ELSE (IF 2 * y * y >= CoefScale THEN 3 ELSE 2)

\* equirectUv(dir), dir a unit vector; a NaN direction addresses texel (0, 0)
EquirectUv(d) ==
    IF IsNaN(d[1]) \/ IsNaN(d[2]) \/ IsNaN(d[3]) THEN <<0, 0>>
    ELSE <<TexelU(d), TexelV(d)>>

\* texture(heightMap, uv).r: dark at the poles, bands of different density between
HeightRow == <<12, 0, 30, 48, 0, 36, 60, 24>>
HeightMap(uv) == IF uv[2] \in {1, 2} THEN HeightRow[uv[1] + 1] ELSE 0

\* texture(displacementMap, uv).rgb, RepeatWrapping in both axes
DisplacementMap(uv) ==
    LET u == uv[1] % TexW
        v == uv[2] % TexH
    IN  IF (u + v) % 2 = 0 THEN <<Scale, Scale, Scale>> ELSE <<0, Scale \div 2, Scale>>

\* index.js displacePoint(p, strength), with u_time the scroll
DisplacePoint(p, strength, u_time) ==
    LET uv == EquirectUv(Normalize(p))
        displacementA == DisplacementMap(<<uv[1] + u_time, uv[2]>>)
        displacementB == DisplacementMap(<<uv[1] - u_time, TexH - 1 - uv[2]>>)
        centred(d) == [i \in 1..3 |-> d[i] - Scale \div 2]
        sum == VAdd(centred(displacementA), centred(displacementB))
    IN  VAdd(p, VScale(strength, sum))

\* the density looked up for the point p: texture(heightMap, equirectUv(normalize(p))).r
SampleUv(p) == EquirectUv(Normalize(p))

(***************************************************************************)
(* index.js: params, uniforms and the dat.GUI controllers.                 *)
(***************************************************************************)
\* the pixels the model shades in a draw call
Frags == {1, 2}

\* '#rrggbb' as its three bytes
Black == <<0, 0, 0>>
Magenta == <<224, 0, 255>>
White == <<255, 255, 255>>
ColorChoices == {Black, Magenta, White}

\* THREE.Color.set(hex): each channel is its byte / 255
ColorSet(hex) == [i \in 1..3 |-> Quot(hex[i] * Scale, 255)]

InitialIterations == 60
IterationsLo == 0
IterationsHi == 64
IterationChoices == {v \in 0..MaxIterChoice : IterationsLo <= v /\ v <= IterationsHi}

\* depth and displacement sliders: the values the model moves them to
DepthChoices == {0, (3 * Scale) \div 10, Scale}
DisplacementChoices == {0, Scale \div 10, (3 * Scale) \div 10}

InitialParams ==
    [iterations |-> InitialIterations,
     depth |-> (3 * Scale) \div 10,
     displacement |-> Scale \div 10,
     colorA |-> Black,
     colorB |-> Magenta]

InitialUniforms ==
    [iterations |-> InitialParams.iterations,
     depth |-> InitialParams.depth,
     displacement |-> InitialParams.displacement,
     colorA |-> ColorSet(InitialParams.colorA),
     colorB |-> ColorSet(InitialParams.colorB),
     u_time |-> 0]

\* createCamera(75, 0.1, 100, {x: 0, y: 0, z: 2}), and where OrbitControls takes it
InitialCamera == <<0, 0, 2 * Scale>>
CameraChoices == {InitialCamera, <<0, 0, 75>>, <<0, 0, 76>>}

\* v_pos of each pixel's fragment: the point of the unit sphere the pixel shows from
\* the camera position c; pixel 1 is the centre of the view, pixel 2 is near the
\* silhouette (on it from <<0, 0, 75>>)
FragPos(c, f) ==
    IF f = 1 THEN <<0, 0, Scale>>
    ELSE IF c = InitialCamera THEN <<52, 0, 30>>
    ELSE <<36, 0, 48>>

\* what each local array of main() holds before solveQuadratic writes to it
\* (zeroes, NaNs, or the values an earlier use of the registers left)
GarbageRoots ==
    {[i \in 0..2 |-> 0], [i \in 0..2 |-> NaN], [i \in 0..2 |-> IF i = 0 THEN 2 * Scale ELSE 2 * i - 1]}

IdleFrag ==
    [pc |-> "idle", rayDir |-> <<0, 0, 0>>, roots_outer |-> [i \in 0..2 |-> 0], roots_inner |-> [i \in 0..2 |-> 0],
     totalVolume |-> 0, call |-> 0, marched |-> 0, endPoint |-> 0, volume |-> 0,
     gl_FragColor |-> <<0, 0, 0, 0>>,
     \* history, for the properties: what main() asked of marchRay and what it did
     calls |-> <<>>, sampled |-> <<>>, factor |-> 0]

\* guard of every GUI input: the page is idle and the model's budget allows it
CanChange == ~rendering /\ inputs < MaxInputs

\* gui.add(params, 'iterations', 0, 64, 1).onChange(v => uniforms.iterations.value = v)
SetIterations(v) ==
    /\ CanChange
    /\ v \in IterationChoices
    /\ params' = [params EXCEPT !.iterations = v]
    /\ uniforms' = [uniforms EXCEPT !.iterations = v]
    /\ inputs' = inputs + 1
    /\ UNCHANGED <<camera, build, shader, rendering, frag, solve>>

\* gui.add(params, 'depth', 0, 1, 0.01).onChange(v => uniforms.depth.value = v)
SetDepth(v) ==
    /\ CanChange
    /\ v \in DepthChoices
    /\ params' = [params EXCEPT !.depth = v]
    /\ uniforms' = [uniforms EXCEPT !.depth = v]
    /\ inputs' = inputs + 1
    /\ UNCHANGED <<camera, build, shader, rendering, frag, solve>>

\* gui.add(params, 'displacement', 0, 0.3, 0.001).onChange(v => uniforms.displacement.value = v)
SetDisplacement(v) ==
    /\ CanChange
    /\ v \in DisplacementChoices
    /\ params' = [params EXCEPT !.displacement = v]
    /\ uniforms' = [uniforms EXCEPT !.displacement = v]
    /\ inputs' = inputs + 1
    /\ UNCHANGED <<camera, build, shader, rendering, frag, solve>>

\* gui.addColor(params, 'colorA').onChange(v => uniforms.colorA.value.set(v))
SetColorA(v) ==
    /\ CanChange
    /\ v \in ColorChoices
    /\ params' = [params EXCEPT !.colorA = v]
    /\ uniforms' = [uniforms EXCEPT !.colorA = ColorSet(v)]
    /\ inputs' = inputs + 1
    /\ UNCHANGED <<camera, build, shader, rendering, frag, solve>>

\* gui.addColor(params, 'colorB').onChange(v => uniforms.colorB.value.set(v))
SetColorB(v) ==
    /\ CanChange
    /\ v \in ColorChoices
    /\ params' = [params EXCEPT !.colorB = v]
    /\ uniforms' = [uniforms EXCEPT !.colorB = ColorSet(v)]
    /\ inputs' = inputs + 1
    /\ UNCHANGED <<camera, build, shader, rendering, frag, solve>>

\* updateScene: this.controls.update() moves the camera between frames
OrbitUpdate(c) ==
    /\ CanChange
    /\ c \in CameraChoices
    /\ c # camera
    /\ camera' = c
    /\ inputs' = inputs + 1
    /\ UNCHANGED <<params, uniforms, build, shader, rendering, frag, solve>>

\* the harness advances the clock uniform between frames
Tick ==
    /\ CanChange
    /\ uniforms' = [uniforms EXCEPT !.u_time = @ + 1]
    /\ inputs' = inputs + 1
    /\ UNCHANGED <<params, camera, build, shader, rendering, frag, solve>>

\* the harness draws the sphere: every fragment runs main() on the uniforms as they are
Render ==
    /\ ~rendering
    /\ rendering' = TRUE
    /\ UNCHANGED <<params, uniforms, camera, inputs, build, shader, frag, solve>>

\* the draw call is over when every fragment has written its colour
EndFrame ==
    /\ rendering
    /\ \A f \in Frags : frag[f].pc = "done"
    /\ rendering' = FALSE
    /\ frag' = [f \in Frags |-> IdleFrag]
    /\ UNCHANGED <<params, uniforms, camera, inputs, build, shader, solve>>

(***************************************************************************)
(* fragmentShader.glsl: main() and marchRay(), one action per step.        *)
(***************************************************************************)
\* vertex shader: v_cam = cameraPosition, v_dir = position - cameraPosition;
\* main: rayDir = normalize(v_dir)
RayDir(f) == Normalize(VSub(FragPos(camera, f), camera))

\* float marchStep = 1. / float(iterations);  float stepWeight = marchStep * 2.;
marchStep == FDiv(Scale, uniforms.iterations * Scale)
stepWeight == FMul(marchStep, 2 * Scale)

\* a, b, c_outer, c_inner of main(), radius = 1.0
radius == Scale
CoefA(f) == Dot(RayDir(f), RayDir(f))
CoefB(f) == 2 * Dot(RayDir(f), camera)
c_outer == Dot(camera, camera) - Pow2(build, radius)
c_inner == Dot(camera, camera) - Pow2(build, radius - uniforms.depth)

\* a plausible slip: the inner test first
SelectBranchInnerFirst(outerCount, innerCount) ==
    IF innerCount <= 1 THEN "single"
    ELSE IF outerCount = 1 THEN "tangent"
    ELSE IF innerCount = 2 THEN "split"
    ELSE "none"

\* the if / else if chain of main()
SelectBranch(outerCount, innerCount) ==
    IF outerCount = 1 THEN "tangent"
    ELSE IF innerCount <= 1 THEN "single"
    ELSE IF innerCount = 2 THEN "split"
    ELSE "none"

\* a plausible slip: the hollow split marched through the core
SegmentsThroughCore(branch, ro, ri) ==
    IF branch = "tangent" THEN << <<ro[1], ro[1]>> >>
    ELSE IF branch = "single" THEN << <<ro[1], ro[2]>> >>
    ELSE IF branch = "split" THEN << <<ro[1], ri[2]>>, <<ri[2], ro[2]>> >>
    ELSE <<>>

\* the marchRay calls of the branch taken: <<marched, endPoint>> of each, in order
Segments(branch, ro, ri) ==
    IF branch = "tangent" THEN << <<ro[1], ro[1]>> >>
    ELSE IF branch = "single" THEN << <<ro[1], ro[2]>> >>
    ELSE IF branch = "split" THEN << <<ro[1], ri[1]>>, <<ri[2], ro[2]>> >>
    ELSE <<>>

PlannedCalls(fr) ==
    Segments(SelectBranch(RootCount(fr.roots_outer), RootCount(fr.roots_inner)),
             fr.roots_outer, fr.roots_inner)

\* a plausible slip: an exclusive bound
LoopCondExclusive(marched, endPoint) == FLt(marched, endPoint)

\* while (marched <= endPoint)
LoopCond(marched, endPoint) == FLe(marched, endPoint)

\* a plausible slip: one accumulator for all fragments
AccumulateShared(fs, f, dv) == [g \in Frags |-> [fs[g] EXCEPT !.volume = FAdd(@, dv)]]

\* totalVolume += heightMapVal * stepWeight;  (marchRay's local)
Accumulate(fs, f, dv) == [fs EXCEPT ![f].volume = FAdd(@, dv)]

\* the call marchRay(rayDir, seg[1], seg[2], marchStep, stepWeight) begins
StartCall(fr, seg) ==
    [fr EXCEPT !.call = @ + 1, !.marched = seg[1], !.endPoint = seg[2], !.volume = 0,
               !.calls = Append(@, [start |-> seg[1], endPoint |-> seg[2], steps |-> 0,
                                    result |-> 0, returned |-> FALSE])]

\* main() down to the first marchRay call
Main(f) ==
    /\ rendering
    /\ shader = "glsl"
    /\ frag[f].pc = "idle"
    /\ \E garbage \in GarbageRoots :
        LET ro == SolveQuadratic(build, CoefA(f), CoefB(f), c_outer, garbage)
            ri == SolveQuadratic(build, CoefA(f), CoefB(f), c_inner, garbage)
            fr == [frag[f] EXCEPT !.rayDir = RayDir(f), !.roots_outer = ro,
                                  !.roots_inner = ri, !.totalVolume = 0]
            segs == PlannedCalls(fr)
        IN  frag' = [frag EXCEPT ![f] =
                        IF segs = <<>> THEN [fr EXCEPT !.pc = "mix"]
                        ELSE StartCall([fr EXCEPT !.pc = "march"], segs[1])]
    /\ UNCHANGED <<params, uniforms, camera, inputs, build, shader, rendering, solve>>

\* one turn of marchRay's loop
MarchRayStep(f) ==
    /\ rendering
    /\ frag[f].pc = "march"
    /\ LoopCond(frag[f].marched, frag[f].endPoint)
    /\ LET fr == frag[f]
           p == VAdd(camera, VScale(fr.marched, fr.rayDir))
           uv == SampleUv(p)
           heightMapVal == HeightMap(uv)
       IN  frag' = Accumulate(
                       [frag EXCEPT ![f].marched = Mediump(build, FAdd(@, marchStep)),
                                    ![f].sampled = <<[t |-> fr.marched, p |-> p, uv |-> uv]>>,
                                    ![f].calls[fr.call].steps =
                                        IF @ < MaxSteps THEN @ + 1 ELSE @],
                       f, FMul(heightMapVal, stepWeight))
    /\ UNCHANGED <<params, uniforms, camera, inputs, build, shader, rendering, solve>>

\* marchRay returns; main() assigns (first call) or adds (second call) the result
MarchRayReturn(f) ==
    /\ rendering
    /\ frag[f].pc = "march"
    /\ ~LoopCond(frag[f].marched, frag[f].endPoint)
    /\ LET fr == frag[f]
           segs == PlannedCalls(fr)
           fr1 == [fr EXCEPT !.totalVolume = IF fr.call = 1 THEN fr.volume
                                             ELSE FAdd(fr.totalVolume, fr.volume),
                             !.calls[fr.call].result = fr.volume,
                             !.calls[fr.call].returned = TRUE]
       IN  frag' = [frag EXCEPT ![f] =
                        IF fr.call < Len(segs) THEN StartCall(fr1, segs[fr.call + 1])
                        ELSE [fr1 EXCEPT !.pc = "mix"]]
    /\ UNCHANGED <<params, uniforms, camera, inputs, build, shader, rendering, solve>>

\* mix(x, y, a) = x * (1 - a) + y * a
Mix(x, y, a) == FAdd(FMul(x, FSub(Scale, a)), FMul(y, a))

\* the upper bound of the clamp, 0.9
VolumeCap == (9 * Scale) \div 10

\* clamp(totalVolume, 0.0, 0.9)
MixFactor(bld, totalVolume) == Clamp(bld, totalVolume, 0, VolumeCap)

\* a plausible slip: colorB alone above the cap
FragColorSaturating(colorA, colorB, factor) ==
    IF factor = VolumeCap THEN <<colorB[1], colorB[2], colorB[3], factor>>
    ELSE <<Mix(colorA[1], colorB[1], factor), Mix(colorA[2], colorB[2], factor),
           Mix(colorA[3], colorB[3], factor), Mix(0, Scale, factor)>>

\* mix(vec4(colorA, 0.0), vec4(colorB, 1.0), factor)
FragColor(colorA, colorB, factor) ==
    <<Mix(colorA[1], colorB[1], factor), Mix(colorA[2], colorB[2], factor),
      Mix(colorA[3], colorB[3], factor), Mix(0, Scale, factor)>>

\* vec4 rgba = mix(..., clamp(totalVolume, 0.0, 0.9)); gl_FragColor = rgba;
WriteColor(f) ==
    /\ rendering
    /\ frag[f].pc = "mix"
    /\ LET factor == MixFactor(build, frag[f].totalVolume)
       IN  frag' = [frag EXCEPT ![f].pc = "done",
                                ![f].factor = factor,
                                ![f].gl_FragColor =
                                    FragColor(uniforms.colorA, uniforms.colorB, factor)]
    /\ UNCHANGED <<params, uniforms, camera, inputs, build, shader, rendering, solve>>

(***************************************************************************)
(* index.js: the inline fragment shader (concentric shells, one solve per  *)
(* iteration), and the varyings its vertex shader computes.  main() is one *)
(* action: its loop is the operator InlineLoop.                            *)
(***************************************************************************)
PI == 188
Abs(x) == IF IsNaN(x) THEN NaN ELSE IF x < 0 THEN -x ELSE x

\* acos(x), linear between the knots <<cos, angle>>; undefined (NaN) for |x| > 1
AcosKnots ==
    << <<60, 0>>, <<59, 11>>, <<52, 31>>, <<30, 63>>, <<0, 94>>,
       <<-30, 126>>, <<-52, 157>>, <<-59, 177>>, <<-60, 188>> >>
Acos(x) ==
    IF IsNaN(x) \/ x > Scale \/ x < -Scale THEN NaN
    ELSE LET i == CHOOSE k \in 1..(Len(AcosKnots) - 1) :
                      AcosKnots[k + 1][1] <= x /\ x <= AcosKnots[k][1]
             hi == AcosKnots[i]
             lo == AcosKnots[i + 1]
         IN  hi[2] + Quot((hi[1] - x) * (lo[2] - hi[2]), hi[1] - lo[1])

\* acos(dot(v1, v2) / (length(v1) * length(v2)))
AngleBetweenVs(v1, v2) ==
    IF ~VFinite(v1) \/ ~VFinite(v2) THEN NaN
    ELSE Acos(Quot(Dot(v1, v2) * Scale, Length(v1) * Length(v2)))

\* the varyings a_pos and a_cam of the inline vertex shader
a_pos(f) == AngleBetweenVs(camera, FragPos(camera, f))
a_cam(f) == AngleBetweenVs(VSub(FragPos(camera, f), camera), [i \in 1..3 |-> -camera[i]])

\* smoothstep(e0, e1, x)
Smoothstep(bld, e0, e1, x) ==
    LET t == Clamp(bld, FDiv(FSub(x, e0), FSub(e1, e0)), 0, Scale)
    IN  FMul(FMul(t, t), FSub(3 * Scale, FMul(2 * Scale, t)))

\* cubicPulse(c, w, x)
CubicPulse(c, w, x) ==
    LET d == Abs(FSub(x, c))
        q == FDiv(d, w)
    IN  IF FLt(w, d) THEN 0
        ELSE FSub(Scale, FMul(FMul(q, q), FSub(3 * Scale, FMul(2 * Scale, q))))

\* pow(x, 2.0) of a float, as a float
PowF(bld, x) ==
    LET q == Pow2(bld, x)
    IN  IF IsNaN(q) THEN NaN ELSE Quot(q, Scale)

\* float perIteration = 1. / float(iterations);
perIteration == FDiv(Scale, uniforms.iterations * Scale)

\* float m_depth = depth * (1.0 - smoothstep(0.0, 1.15, a_pos));
m_depth(f) ==
    FMul(uniforms.depth, FSub(Scale, Smoothstep(build, 0, (115 * Scale) \div 100, a_pos(f))))

\* what main() computes once per fragment before the loop
InlineEnv(f) ==
    [a_pos |-> a_pos(f),
     mid_angle |-> FSub(FSub(PI, PI \div 2), a_cam(f)),
     m_depth |-> m_depth(f),
     rayDir |-> RayDir(f),
     a |-> CoefA(f),
     b |-> CoefB(f)]

\* the body of the loop over the intersections, for j: what it adds to totalVolume
Intersection(env, roots, j) ==
    LET p == VAdd(camera, VScale(roots[j], env.rayDir))
        ang_p == AngleBetweenVs(camera, p)
        uv == SampleUv(p)
        texel == HeightMap(uv)
        heightMapVal == IF j = 2 THEN FMul(texel, (4 * Scale) \div 10) ELSE texel
        pulse == PowF(build, FAdd(CubicPulse(env.mid_angle, (3 * Scale) \div 10, ang_p), Scale))
    IN  [add |-> FMul(FMul(heightMapVal, perIteration), pulse),
         sampled |-> <<[t |-> roots[j], p |-> p, uv |-> uv]>>]

\* one pass through the body of for (int i = 0; i < iterations; ++i).
\* roots is declared in the body and read only up to roots[0], which the solver sets.
InlineStep(env, st) ==
    LET c == FSub(Dot(camera, camera), Pow2(build, st.radius))
        roots == SolveQuadraticInline(build, env.a, env.b, c, [k \in 0..2 |-> 0], env.a_pos)
        n == RootCount(roots)
        first == Intersection(env, roots, 1)
        second == Intersection(env, roots, 2)
        tv1 == IF n >= 1 THEN FAdd(st.totalVolume, first.add) ELSE st.totalVolume
    IN  [radius |-> FSub(st.radius, FMul(env.m_depth, perIteration)),
         totalVolume |-> IF n >= 2 THEN FAdd(tv1, second.add) ELSE tv1,
         sampled |-> IF n >= 2 THEN second.sampled
                     ELSE IF n >= 1 THEN first.sampled ELSE st.sampled]

\* n passes through the body, one after the other: the first half, then the rest.
\* The test half = half has the first half evaluated before the rest is entered.
RECURSIVE InlineLoop(_, _, _)
InlineLoop(env, n, st) ==
    IF n = 0 THEN st
    ELSE IF n = 1 THEN InlineStep(env, st)
    ELSE LET half == InlineLoop(env, n \div 2, st)
         IN  IF half = half THEN InlineLoop(env, n - (n \div 2), half) ELSE half

\* main() of the inline shader down to the mix
InlineMain(f) ==
    /\ rendering
    /\ shader = "inline"
    /\ frag[f].pc = "idle"
    /\ LET r == InlineLoop(InlineEnv(f), uniforms.iterations,
                           [radius |-> radius, totalVolume |-> 0, sampled |-> <<>>])
       IN  frag' = [frag EXCEPT ![f].pc = "mix",
                                ![f].rayDir = RayDir(f),
                                ![f].totalVolume = r.totalVolume,
                                ![f].sampled = r.sampled]
    /\ UNCHANGED <<params, uniforms, camera, inputs, build, shader, rendering, solve>>

(***************************************************************************)
(* The page: construction, then GUI input, camera motion, clock and draws. *)
(***************************************************************************)
NoSolve == [pc |-> "unused"]

\* The marches of a frame stay below 256.0, where the two mediump builds store the
\* same values: the frames are shaded on the full-precision ones.
FrameBuilds == {b \in Builds : b.mediump = "full"}

Init ==
    /\ params = InitialParams
    /\ uniforms = InitialUniforms
    /\ camera = InitialCamera
    /\ inputs = 0
    /\ build \in FrameBuilds
    /\ shader \in {"glsl", "inline"}
    /\ rendering = FALSE
    /\ frag = [f \in Frags |-> IdleFrag]
    /\ solve = NoSolve

Next ==
    \/ \E v \in IterationChoices : SetIterations(v)
    \/ \E v \in DepthChoices : SetDepth(v)
    \/ \E v \in DisplacementChoices : SetDisplacement(v)
    \/ \E v \in ColorChoices : SetColorA(v)
    \/ \E v \in ColorChoices : SetColorB(v)
    \/ \E c \in CameraChoices : OrbitUpdate(c)
    \/ Tick
    \/ Render
    \/ \E f \in Frags : Main(f)
    \/ \E f \in Frags : InlineMain(f)
    \/ \E f \in Frags : MarchRayStep(f)
    \/ \E f \in Frags : MarchRayReturn(f)
    \/ \E f \in Frags : WriteColor(f)
    \/ EndFrame

Spec == Init /\ [][Next]_vars

(***************************************************************************)
(* The solver on its own: Init draws the coefficients (a > 0), the varying *)
(* a_pos, the build and what the caller's roots array holds; the actions   *)
(* apply the solver of fragmentShader.glsl or the one of index.js.         *)
(***************************************************************************)
CoefA_Choices == 1..MaxCoef
CoefB_Choices == (-2 * MaxCoef)..(2 * MaxCoef)
CoefC_Choices == (-MaxCoef)..MaxCoef
APosChoices == {0, Scale \div 2}

SolveCall ==
    /\ solve.pc = "call"
    /\ solve.variant = "glsl"
    /\ solve' = [solve EXCEPT !.pc = "done",
                              !.roots = SolveQuadratic(build, solve.a, solve.b, solve.c, @)]
    /\ UNCHANGED <<params, uniforms, camera, inputs, build, shader, rendering, frag>>

SolveCallInline ==
    /\ solve.pc = "call"
    /\ solve.variant = "inline"
    /\ solve' = [solve EXCEPT !.pc = "done",
                              !.roots = SolveQuadraticInline(build, solve.a, solve.b, solve.c,
                                                             @, solve.a_pos)]
    /\ UNCHANGED <<params, uniforms, camera, inputs, build, shader, rendering, frag>>

InitSolve ==
    /\ params = InitialParams
    /\ uniforms = InitialUniforms
    /\ camera = InitialCamera
    /\ inputs = 0
    /\ build \in FrameBuilds
    /\ shader \in {"glsl"}
    /\ rendering = FALSE
    /\ frag = [f \in Frags |-> IdleFrag]
    /\ solve \in [pc : {"call"}, variant : {"glsl", "inline"},
                  a : CoefA_Choices, b : CoefB_Choices, c : CoefC_Choices,
                  a_pos : APosChoices, roots : GarbageRoots]

NextSolve == SolveCall \/ SolveCallInline

SpecSolve == InitSolve /\ [][NextSolve]_vars

(***************************************************************************)
(* marchRay on its own: Init draws the start and the end of two marches    *)
(* along one ray (one per fragment, from the same start), the iterations   *)
(* and the precision of the build; the actions are those of marchRay.      *)
(***************************************************************************)
MarchRay == <<Scale, 0, 0>>
MarchStarts == {0, 100, HalfCoarseFrom}
MarchLens == {-1, 0, MaxMarchLen \div 2, MaxMarchLen}
MarchIterations == IterationChoices \cup {InitialIterations}
MarchBuilds == {b \in Builds : b.powNeg = "square" /\ b.clampNaN = "lo"}

\* a fragment whose main() has just called marchRay(MarchRay, start, endPoint, ..)
MarchFrag(start, endPoint) ==
    StartCall([IdleFrag EXCEPT !.pc = "march",
                               !.rayDir = MarchRay,
                               !.roots_outer = [i \in 0..2 |-> IF i = 0 THEN 2 * Scale
                                                               ELSE IF i = 1 THEN start
                                                               ELSE endPoint]],
              <<start, endPoint>>)

InitMarch ==
    /\ \E it \in MarchIterations :
        /\ params = [InitialParams EXCEPT !.iterations = it]
        /\ uniforms = [InitialUniforms EXCEPT !.iterations = it]
    /\ camera = InitialCamera
    /\ inputs = 0
    /\ build \in MarchBuilds
    /\ shader = "glsl"
    /\ rendering = TRUE
    /\ \E start \in MarchStarts : \E len \in [Frags -> MarchLens] :
        frag = [f \in Frags |-> MarchFrag(start, start + len[f])]
    /\ solve = NoSolve

NextMarch ==
    \/ \E f \in Frags : MarchRayStep(f)
    \/ \E f \in Frags : MarchRayReturn(f)

SpecMarch == InitMarch /\ [][NextMarch]_vars

(***************************************************************************)
(* The reference solver on D = b*b - 4*a*c, in the same arithmetic.        *)
(***************************************************************************)
RefSolve(a, b, c) ==
    LET D == b * b - 4 * a * c
    IN  IF D > 0
        THEN [count |-> 2, r1 |-> Quot((-b - Sqrt(D)) * Scale, 2 * a),
                           r2 |-> Quot((-b + Sqrt(D)) * Scale, 2 * a)]
        ELSE IF D = 0
        THEN [count |-> 1, r1 |-> Quot((-b) * Scale, 2 * a), r2 |-> NaN]
        ELSE [count |-> 0, r1 |-> NaN, r2 |-> NaN]

AgreesWithRef(roots, ref) ==
    /\ roots[0] = ref.count * Scale
    /\ ref.count >= 1 => roots[1] = ref.r1
    /\ ref.count = 2 => roots[2] = ref.r2 /\ roots[1] <= roots[2]

\* C1: for every (a, b, c) with a > 0, what solveQuadratic leaves in roots agrees
\* with the reference solver on D: count 2 and both roots in order when D > 0,
\* count 1 and -b/(2a) when D = 0, count 0 when D < 0.
C1_SolverAgrees ==
    solve.pc = "done" => AgreesWithRef(solve.roots, RefSolve(solve.a, solve.b, solve.c))

(***************************************************************************)
(* The claims about the fragment shader, over Spec.                        *)
(***************************************************************************)
GlslStarted(f) == shader = "glsl" /\ frag[f].pc \in {"march", "mix", "done"}
GlslFinished(f) == shader = "glsl" /\ frag[f].pc \in {"mix", "done"}

\* the segments the three cases name, from the two root counts, first match first
ExpectedSegments(ro, ri) ==
    IF RootCount(ro) = 1 THEN << <<ro[1], ro[1]>> >>
    ELSE IF RootCount(ri) <= 1 THEN << <<ro[1], ro[2]>> >>
    ELSE << <<ro[1], ri[1]>>, <<ri[2], ro[2]>> >>

MadeSegments(fr) == [i \in 1..Len(fr.calls) |-> <<fr.calls[i].start, fr.calls[i].endPoint>>]

SumOfResults(calls) ==
    IF Len(calls) = 1 THEN calls[1].result ELSE FAdd(calls[1].result, calls[2].result)

\* C2: the marches a fragment makes are those of exactly one of the three cases,
\* chosen from the two root counts top to bottom: outer count 1 gives the one
\* degenerate segment [outer.t0, outer.t0]; otherwise inner count <= 1 gives the one
\* segment [outer.t0, outer.t1]; otherwise [outer.t0, inner.t0] then
\* [inner.t1, outer.t1], and the accumulated volume is the sum of the marches made.
C2_BranchByCounts ==
    \A f \in Frags :
        GlslStarted(f) =>
            LET fr == frag[f]
                expected == ExpectedSegments(fr.roots_outer, fr.roots_inner)
                made == MadeSegments(fr)
            IN  /\ RootCount(fr.roots_outer) \in 0..2
                /\ RootCount(fr.roots_inner) \in 0..2
                /\ Len(made) >= 1
                /\ Len(made) <= Len(expected)
                /\ \A i \in 1..Len(made) : made[i] = expected[i]
                /\ GlslFinished(f) =>
                    /\ Len(made) = Len(expected)
                    /\ \A i \in 1..Len(made) : fr.calls[i].returned
                    /\ fr.totalVolume = SumOfResults(fr.calls)

\* a fragment whose ray crosses both spheres has made both marches, each with
\* a non-zero result, and has its colour
C2_Witness ==
    \E f \in Frags :
        /\ shader = "glsl"
        /\ frag[f].pc = "done"
        /\ RootCount(frag[f].roots_outer) = 2
        /\ RootCount(frag[f].roots_inner) = 2
        /\ Len(frag[f].calls) = 2
        /\ frag[f].calls[1].result > 0
        /\ frag[f].calls[2].result > 0
        /\ IsFinite(frag[f].totalVolume)

\* C3: when the inner root count is 2, every t at which a marching step samples the
\* density lies in [outer.t0, inner.t0] or in [inner.t1, outer.t1], never strictly
\* between inner.t0 and inner.t1.
C3_CoreNotSampled ==
    \A f \in Frags :
        (GlslStarted(f) /\ RootCount(frag[f].roots_inner) = 2 /\ frag[f].sampled # <<>>) =>
            LET t == frag[f].sampled[1].t
                ro == frag[f].roots_outer
                ri == frag[f].roots_inner
            IN  /\ ~(FLt(ri[1], t) /\ FLt(t, ri[2]))
                /\ \/ FLe(ro[1], t) /\ FLe(t, ri[1])
                   \/ FLe(ri[2], t) /\ FLe(t, ro[2])

\* a fragment whose ray crosses the inner sphere has stepped through the near
\* shell and is sampling in the far one
C3_Witness ==
    \E f \in Frags :
        /\ shader = "glsl"
        /\ frag[f].pc = "march"
        /\ RootCount(frag[f].roots_inner) = 2
        /\ FLt(frag[f].roots_inner[1], frag[f].roots_inner[2])
        /\ frag[f].call = 2
        /\ frag[f].calls[1].steps > 1
        /\ frag[f].calls[2].steps > 1
        /\ FLe(frag[f].roots_inner[2], frag[f].sampled[1].t)

\* the value x clamped into [lo, hi]
ClampedInto(x, lo, hi) == IF FLe(x, lo) THEN lo ELSE IF FLe(hi, x) THEN hi ELSE x

\* C4: for any inputs, the mix factor of an emitted colour is the accumulated volume
\* clamped into [0, 0.9], and the alpha of the colour is within [0, 0.9].
C4_FactorClamped ==
    \A f \in Frags :
        frag[f].pc = "done" =>
            /\ ~IsNaN(frag[f].totalVolume) =>
                    frag[f].factor = ClampedInto(frag[f].totalVolume, 0, VolumeCap)
            /\ FLe(0, frag[f].factor) /\ FLe(frag[f].factor, VolumeCap)
            /\ FLe(0, frag[f].gl_FragColor[4]) /\ FLe(frag[f].gl_FragColor[4], VolumeCap)

\* one tenth of x plus nine tenths of y
BlendAtCap(x, y) == FAdd(FMul(x, Scale - VolumeCap), FMul(y, VolumeCap))

\* C5 (as amended): whenever the accumulated volume is >= 0.9 the emitted colour is
\* the mix at factor 0.9: every RGB channel is 0.1 * colorA + 0.9 * colorB and the
\* alpha is 0.9.
C5_SaturatedIsBlend ==
    \A f \in Frags :
        (frag[f].pc = "done" /\ FLe(VolumeCap, frag[f].totalVolume)) =>
            frag[f].gl_FragColor =
                <<BlendAtCap(uniforms.colorA[1], uniforms.colorB[1]),
                  BlendAtCap(uniforms.colorA[2], uniforms.colorB[2]),
                  BlendAtCap(uniforms.colorA[3], uniforms.colorB[3]),
                  VolumeCap>>

\* a fragment has its colour, its volume is at least 0.9 and the two colours differ
C5_Witness ==
    \E f \in Frags :
        /\ frag[f].pc = "done"
        /\ FLe(VolumeCap, frag[f].totalVolume)
        /\ uniforms.colorA # uniforms.colorB
        /\ frag[f].gl_FragColor[4] = VolumeCap

\* C5 (as stated): whenever the accumulated volume is >= 0.9 the emitted colour has
\* exactly the RGB channels of colorB, with alpha 0.9.
C5_SaturatedIsColorB ==
    \A f \in Frags :
        (frag[f].pc = "done" /\ FLe(VolumeCap, frag[f].totalVolume)) =>
            frag[f].gl_FragColor =
                <<uniforms.colorB[1], uniforms.colorB[2], uniforms.colorB[3], VolumeCap>>

\* C6: with iterations = 0 every fragment ends with zero accumulated volume and the
\* colour colorA with alpha 0; the step size 1/iterations never makes the volume
\* non-zero, infinite or undefined.
C6_ZeroIterationsTransparent ==
    \A f \in Frags :
        (frag[f].pc = "done" /\ uniforms.iterations = 0) =>
            /\ frag[f].totalVolume = 0
            /\ frag[f].gl_FragColor =
                   <<uniforms.colorA[1], uniforms.colorA[2], uniforms.colorA[3], 0>>

\* C7: after any sequence of GUI changes the iterations value handed to the shader
\* is an integer >= 1 inside the documented range 10..150.
C7_IterationsInRange ==
    /\ uniforms.iterations \in Int
    /\ uniforms.iterations >= 1
    /\ uniforms.iterations >= 10
    /\ uniforms.iterations <= 150

\* C8: every density lookup is taken at the displaced point: the texel looked up for
\* a sample at p is the one of displacePoint(p, displacement), which moves p by
\* strength * ((A - 0.5) + (B - 0.5)) before it is normalised and projected.
C8_LookupAtDisplacedPoint ==
    \A f \in Frags :
        (frag[f].sampled # <<>> /\ VFinite(frag[f].sampled[1].p)) =>
            frag[f].sampled[1].uv =
                SampleUv(DisplacePoint(frag[f].sampled[1].p, uniforms.displacement,
                                       uniforms.u_time))

(***************************************************************************)
(* A fragment shaded alone: its colour as a function of the frame          *)
(* configuration and of its own roots, with no steps of other fragments.   *)
(***************************************************************************)
\* what the sample at t adds
SampleAlone(f, t) ==
    FMul(HeightMap(SampleUv(VAdd(camera, VScale(t, RayDir(f))))), stepWeight)

\* how many t = start, start + marchStep, ... are <= endPoint
SamplesBetween(start, endPoint) ==
    IF ~FLe(start, endPoint) THEN 0
    ELSE IF IsInf(marchStep) THEN 1
    ELSE (endPoint - start) \div marchStep + 1

\* the sum of the samples numbered lo..hi of the march that begins at start
RECURSIVE SumAlone(_, _, _, _)
SumAlone(f, start, lo, hi) ==
    IF lo > hi THEN 0
    ELSE IF lo = hi THEN SampleAlone(f, start + lo * marchStep)
    ELSE FAdd(SumAlone(f, start, lo, (lo + hi) \div 2),
              SumAlone(f, start, (lo + hi) \div 2 + 1, hi))

MarchAlone(f, seg) == SumAlone(f, seg[1], 0, SamplesBetween(seg[1], seg[2]) - 1)

VolumeAlone(f, ro, ri) ==
    IF shader = "inline"
    THEN InlineLoop(InlineEnv(f), uniforms.iterations,
                    [radius |-> radius, totalVolume |-> 0, sampled |-> <<>>]).totalVolume
    ELSE LET segs == ExpectedSegments(ro, ri)
         IN  IF Len(segs) = 1 THEN MarchAlone(f, segs[1])
             ELSE FAdd(MarchAlone(f, segs[1]), MarchAlone(f, segs[2]))

ColourAlone(f, ro, ri) ==
    FragColor(uniforms.colorA, uniforms.colorB, MixFactor(build, VolumeAlone(f, ro, ri)))

WithinStepBound(f) ==
    LET call == frag[f].calls[1]
    IN  (call.steps - 1) * marchStep <= call.endPoint - call.start

C11_MarchWithinStepBound ==
    uniforms.iterations >= 1 => \A f \in Frags : WithinStepBound(f)

(***************************************************************************)
(* C12: over a density that is nowhere negative, of two marches along the  *)
(* same ray from the same start with the same step and weight, the one     *)
(* with the later end returns at least as much volume as the other.        *)
(***************************************************************************)
MarchReturned(f) == frag[f].calls[1].returned
MarchResult(f) == frag[f].calls[1].result
MarchEnd(f) == frag[f].calls[1].endPoint

C12_LongerMarchNeverLess ==
    \A f, g \in Frags :
        (MarchReturned(f) /\ MarchReturned(g) /\ MarchEnd(f) <= MarchEnd(g)) =>
            FLe(MarchResult(f), MarchResult(g))

(***************************************************************************)
(* C13: a root that main() passes to marchRay was written by the solver    *)
(* for that call: the highest index of roots_outer (of roots_inner) among  *)
(* the bounds of the branch taken is at most the count the solver          *)
(* reported, so a ray that misses the outer sphere starts no march.        *)
(***************************************************************************)
BranchTaken(fr) == SelectBranch(RootCount(fr.roots_outer), RootCount(fr.roots_inner))

HighestOuterRootUsed(fr) ==
    IF BranchTaken(fr) = "none" THEN 0 ELSE IF BranchTaken(fr) = "tangent" THEN 1 ELSE 2

HighestInnerRootUsed(fr) == IF BranchTaken(fr) = "split" THEN 2 ELSE 0

C13_OnlyWrittenRootsUsed ==
    \A f \in Frags :
        GlslStarted(f) =>
            /\ HighestOuterRootUsed(frag[f]) <= RootCount(frag[f].roots_outer)
            /\ HighestInnerRootUsed(frag[f]) <= RootCount(frag[f].roots_inner)
            /\ RootCount(frag[f].roots_outer) = 0 => frag[f].calls = <<>>

(***************************************************************************)
(* C14: an inner root count of 2 comes with an outer root count of 2 and   *)
(* with outer.t0 <= inner.t0 <= inner.t1 <= outer.t1, so both marches of   *)
(* the hollow split have start <= end and each takes at least one sample.  *)
(***************************************************************************)
C14_InnerWithinOuter ==
    \A f \in Frags :
        (GlslStarted(f) /\ RootCount(frag[f].roots_inner) = 2) =>
            LET ro == frag[f].roots_outer
                ri == frag[f].roots_inner
            IN  /\ RootCount(ro) = 2
                /\ FLe(ro[1], ri[1]) /\ FLe(ri[1], ri[2]) /\ FLe(ri[2], ro[2])
                /\ GlslFinished(f) =>
                    /\ Len(frag[f].calls) = 2
                    /\ \A i \in 1..2 : frag[f].calls[i].steps >= 1

====
